---- MODULE Spec2Model ----
(***************************************************************************)
(* Model of the plugin manager of main_loader (src/src/plugin_manager.rs): *)
(* the registry `plugins`, the EventBus `subscribers`, and the operations  *)
(* load_plugin, enable_plugin, disable_plugin, unload_plugin,              *)
(* load_all_plugins, unload_all_plugins and Drop.                          *)
(*                                                                         *)
(* A native module is a file of the universe Files; what the host can      *)
(* observe of it (does it open, which exports it has, the name and the     *)
(* events its plugin reports) is given by Module(path).  The outcome of a  *)
(* lifecycle hook is decided by the plugin's code, so every invocation     *)
(* takes its outcome as an input.                                          *)
(***************************************************************************)
EXTENDS Integers, Sequences, FiniteSets, TLC

VARIABLES
    plugins,      \* PluginManager.plugins: name -> PluginEntry
    subscribers,  \* EventBus.subscribers: event name -> set of plugin names
    inst,         \* history: the plugin instances create_plugin() returned,
                  \*   by id, while registered and through the call that
                  \*   destroys them
    last,         \* the call that has just returned to the caller, if any
    trace,        \* what that call did, in order
    pre,          \* the manager as that call found it
    dropped       \* the manager has been dropped

vars == <<plugins, subscribers, inst, last, trace, pre, dropped>>

\* ------------------------------------------------------------ bounds
MaxDir == 2         \* directory entries read by one load_all_plugins

\* ------------------------------------------------------------ universe
Files == {"a.so", "b.so", "c.so", "bad.so", "nosym.so", "notes.txt"}

\* What the host observes of the file at `path`: the file's metadata, whether
\* Library::new opens it, whether it exports create_plugin / unload_plugin, and
\* the name and subscribed_events its plugin reports.
Module(path) ==
    CASE path = "a.so" ->
           [ext |-> "so", exists |-> TRUE, is_file |-> TRUE, mode |-> 493,
            opens |-> TRUE, create_plugin |-> TRUE, unload_plugin |-> TRUE,
            name |-> "p", subscribed_events |-> <<"e1">>]
      [] path = "b.so" ->
           [ext |-> "so", exists |-> TRUE, is_file |-> TRUE, mode |-> 493,
            opens |-> TRUE, create_plugin |-> TRUE, unload_plugin |-> FALSE,
            name |-> "p", subscribed_events |-> <<"e2">>]
      [] path = "c.so" ->
           [ext |-> "so", exists |-> TRUE, is_file |-> TRUE, mode |-> 493,
            opens |-> TRUE, create_plugin |-> TRUE, unload_plugin |-> TRUE,
            name |-> "q", subscribed_events |-> <<"e1", "e2">>]
      [] path = "bad.so" ->
           [ext |-> "so", exists |-> TRUE, is_file |-> TRUE, mode |-> 493,
            opens |-> FALSE, create_plugin |-> FALSE, unload_plugin |-> FALSE,
            name |-> "", subscribed_events |-> <<>>]
      [] path = "nosym.so" ->
           [ext |-> "so", exists |-> TRUE, is_file |-> TRUE, mode |-> 420,
            opens |-> TRUE, create_plugin |-> FALSE, unload_plugin |-> FALSE,
            name |-> "", subscribed_events |-> <<>>]
      [] OTHER ->
           [ext |-> "txt", exists |-> TRUE, is_file |-> TRUE, mode |-> 493,
            opens |-> FALSE, create_plugin |-> FALSE, unload_plugin |-> FALSE,
            name |-> "", subscribed_events |-> <<>>]

PluginNames == {Module(f).name : f \in {g \in Files : Module(g).create_plugin}}
AbsentName == "zz"
Names == PluginNames \cup {AbsentName}
NameOrder == <<"p", "q">>

Range(s) == {s[i] : i \in 1..Len(s)}

\* ------------------------------------------------------------ history helpers
\* One step of a call: kind, the instance it concerns (0: none), a detail.
Ev(kind, id, what) == <<kind, id, what>>

Log(m, e) == [m EXCEPT !.trace = Append(@, e)]

\* A lifecycle hook of instance id is invoked and returns Ok (ok) or Err;
\* inst[id].hooks keeps the hooks that returned Ok, in order.
CallHook(m, id, hook, ok) ==
    [Log(m, Ev(hook, id, IF ok THEN "Ok" ELSE "Err"))
        EXCEPT !.inst[id].hooks = IF ok THEN Append(@, hook) ELSE @]

\* The Box<dyn Plugin> of instance id is dropped.
DropPlugin(m, id) ==
    [Log(m, Ev("drop_plugin", id, "")) EXCEPT !.inst[id].alive = FALSE]

\* The Library handle that produced instance id is dropped (dlclose).
DropLibrary(m, id) ==
    [Log(m, Ev("drop_library", id, "")) EXCEPT !.inst[id].library = FALSE]

\* A PluginEntry is dropped: its fields go in declaration order, plugin
\* first, then library.
DropEntry(m, entry, via) ==
    [DropLibrary(DropPlugin(m, entry.plugin), entry.library)
        EXCEPT !.inst[entry.plugin].via = via]

\* Plugin::subscribed_events of a registered entry.
subscribed_events(m, entry) == Module(m.inst[entry.plugin].path).subscribed_events

\* ------------------------------------------------------------ EventBus
EventBus_new == << >>

subscribe(subs, event, plugin) ==
    [e \in DOMAIN subs \cup {event} |->
        IF e = event
        THEN (IF e \in DOMAIN subs THEN subs[e] ELSE {}) \cup {plugin}
        ELSE subs[e]]

\* unsubscribe emptying the set of the event.
unsubscribe_clears_event(subs, event, plugin) ==
    IF event \in DOMAIN subs
    THEN [subs EXCEPT ![event] = {}]
    ELSE subs

unsubscribe(subs, event, plugin) ==
    IF event \in DOMAIN subs
    THEN [subs EXCEPT ![event] = @ \ {plugin}]
    ELSE subs

get_subscribers(subs, event) ==
    IF event \in DOMAIN subs THEN subs[event] ELSE {}

\* ------------------------------------------------------------ registry helpers
Insert(reg, name, entry) ==
    [n \in DOMAIN reg \cup {name} |-> IF n = name THEN entry ELSE reg[n]]

Remove(reg, name) == [n \in DOMAIN reg \ {name} |-> reg[n]]

\* The id of a new instance: the least one no instance in play has.
FreshId(insts) ==
    CHOOSE i \in 1..(Cardinality(DOMAIN insts) + 1) :
        /\ i \notin DOMAIN insts
        /\ \A j \in 1..(i - 1) : j \in DOMAIN insts

\* ------------------------------------------------------------ enable / disable
\* enable_plugin taking every state but Enabled as a state to enable from.
enable_plugin_from_any(m, name, on_enable) ==
    IF name \in DOMAIN m.plugins
    THEN LET entry == m.plugins[name] IN
         IF entry.state = "Enabled" THEN [m |-> m, ret |-> "Ok"]
         ELSE LET m1 == CallHook(m, entry.plugin, "on_enable", on_enable) IN
              IF ~on_enable THEN [m |-> m1, ret |-> "HookError"]
              ELSE [m |-> [m1 EXCEPT !.plugins[name].state = "Enabled"],
                    ret |-> "Ok"]
    ELSE [m |-> m, ret |-> "EnableError"]

\* enable_plugin recording a failed on_enable in the entry's state.
enable_plugin_marks_error(m, name, on_enable) ==
    IF name \in DOMAIN m.plugins
    THEN LET entry == m.plugins[name] IN
         IF entry.state = "Enabled" THEN [m |-> m, ret |-> "Ok"]
         ELSE IF entry.state = "Loaded"
         THEN LET m1 == CallHook(m, entry.plugin, "on_enable", on_enable) IN
              IF ~on_enable
              THEN [m |-> [m1 EXCEPT !.plugins[name].state = "Error"],
                    ret |-> "HookError"]
              ELSE [m |-> [m1 EXCEPT !.plugins[name].state = "Enabled"],
                    ret |-> "Ok"]
         ELSE [m |-> m, ret |-> "EnableError"]
    ELSE [m |-> m, ret |-> "EnableError"]

enable_plugin(m, name, on_enable) ==
    IF name \in DOMAIN m.plugins
    THEN LET entry == m.plugins[name] IN
         IF entry.state = "Enabled" THEN [m |-> m, ret |-> "Ok"]
         ELSE IF entry.state = "Loaded"
         THEN LET m1 == CallHook(m, entry.plugin, "on_enable", on_enable) IN
              IF ~on_enable THEN [m |-> m1, ret |-> "HookError"]
              ELSE [m |-> [m1 EXCEPT !.plugins[name].state = "Enabled"],
                    ret |-> "Ok"]
         ELSE [m |-> m, ret |-> "EnableError"]
    ELSE [m |-> m, ret |-> "EnableError"]

\* disable_plugin without the early return for an entry already Disabled: the
\* hook runs again.
disable_plugin_rehook(m, name, on_disable) ==
    IF name \in DOMAIN m.plugins
    THEN LET entry == m.plugins[name] IN
         IF entry.state \in {"Enabled", "Disabled"}
         THEN LET m1 == CallHook(m, entry.plugin, "on_disable", on_disable) IN
              IF ~on_disable THEN [m |-> m1, ret |-> "HookError"]
              ELSE [m |-> [m1 EXCEPT !.plugins[name].state = "Disabled"],
                    ret |-> "Ok"]
         ELSE [m |-> m, ret |-> "DisableError"]
    ELSE [m |-> m, ret |-> "DisableError"]

\* disable_plugin taking Loaded as a state to disable from.
disable_plugin_from_loaded(m, name, on_disable) ==
    IF name \in DOMAIN m.plugins
    THEN LET entry == m.plugins[name] IN
         IF entry.state = "Disabled" THEN [m |-> m, ret |-> "Ok"]
         ELSE LET m1 == CallHook(m, entry.plugin, "on_disable", on_disable) IN
              IF ~on_disable THEN [m |-> m1, ret |-> "HookError"]
              ELSE [m |-> [m1 EXCEPT !.plugins[name].state = "Disabled"],
                    ret |-> "Ok"]
    ELSE [m |-> m, ret |-> "DisableError"]

disable_plugin(m, name, on_disable) ==
    IF name \in DOMAIN m.plugins
    THEN LET entry == m.plugins[name] IN
         IF entry.state = "Disabled" THEN [m |-> m, ret |-> "Ok"]
         ELSE IF entry.state = "Enabled"
         THEN LET m1 == CallHook(m, entry.plugin, "on_disable", on_disable) IN
              IF ~on_disable THEN [m |-> m1, ret |-> "HookError"]
              ELSE [m |-> [m1 EXCEPT !.plugins[name].state = "Disabled"],
                    ret |-> "Ok"]
         ELSE [m |-> m, ret |-> "DisableError"]
    ELSE [m |-> m, ret |-> "DisableError"]

\* ------------------------------------------------------------ load
\* for event in plugin.subscribed_events() { event_bus.subscribe(&event, &name) }
\* The loop subscribing to the first declared event only.
SubscribeFirst(m, events, name) ==
    IF events = <<>> THEN m
    ELSE [Log(m, Ev("subscribe", 0, Head(events)))
             EXCEPT !.subscribers = subscribe(@, Head(events), name)]

RECURSIVE SubscribeAll(_, _, _)
SubscribeAll(m, events, name) ==
    IF events = <<>> THEN m
    ELSE SubscribeAll(
            [Log(m, Ev("subscribe", 0, Head(events)))
                EXCEPT !.subscribers = subscribe(@, Head(events), name)],
            Tail(events), name)

\* self.plugins.insert(name, PluginEntry {plugin, library, state: Loaded}):
\* HashMap::insert puts the new entry under the key and hands back the entry
\* that was there, which is dropped on the spot.
InsertEntry(m, name, id) ==
    LET entry == [plugin |-> id, library |-> id, state |-> "Loaded"]
        m1 == [Log(m, Ev("insert", id, name))
                  EXCEPT !.plugins = Insert(@, name, entry)]
    IN IF name \in DOMAIN m.plugins
       THEN DropEntry(m1, m.plugins[name], "replaced")
       ELSE m1

\* load_plugin up to and including self.plugins.insert(..).
LoadAndInsert(m, path, on_load) ==
    LET mod == Module(path) IN
    IF ~mod.opens
    THEN [m |-> Log(m, Ev("Library::new", 0, "Err")), ret |-> "LoadError"]
    ELSE IF ~mod.create_plugin
    THEN [m |-> Log(Log(Log(m, Ev("Library::new", 0, "Ok")),
                        Ev("get create_plugin", 0, "Err")),
                    Ev("drop_library", 0, "")),
          ret |-> "LoadError"]
    ELSE LET id == FreshId(m.inst)
             name == mod.name
             m1 == [Log(Log(Log(m, Ev("Library::new", 0, "Ok")),
                            Ev("get create_plugin", 0, "Ok")),
                        Ev("create_plugin", id, name))
                      EXCEPT !.inst = Insert(@, id,
                                             [path |-> path, hooks |-> <<>>,
                                              alive |-> TRUE, library |-> TRUE,
                                              via |-> ""])]
             m2 == CallHook(m1, id, "on_load", on_load)
         IN IF ~on_load
            THEN [m |-> [DropLibrary(DropPlugin(m2, id), id)
                            EXCEPT !.inst[id].via = "load_failed"],
                  ret |-> "HookError"]
            ELSE [m |-> InsertEntry(
                           SubscribeAll(m2, mod.subscribed_events, name),
                           name, id),
                  ret |-> "Ok"]

\* load_plugin leaving the new entry in state Loaded for the caller to enable.
load_plugin_no_enable(m, path, on_load, on_enable) ==
    LoadAndInsert(m, path, on_load)

load_plugin(m, path, on_load, on_enable) ==
    LET r == LoadAndInsert(m, path, on_load) IN
    IF r.ret # "Ok" THEN r
    ELSE enable_plugin(r.m, Module(path).name, on_enable)

\* ------------------------------------------------------------ unload
\* for event in events { event_bus.unsubscribe(&event, name) }
RECURSIVE UnsubscribeAll(_, _, _)
UnsubscribeAll(m, events, name) ==
    IF events = <<>> THEN m
    ELSE UnsubscribeAll(
            [Log(m, Ev("unsubscribe", 0, Head(events)))
                EXCEPT !.subscribers = unsubscribe(@, Head(events), name)],
            Tail(events), name)

\* The body going on to the removal whatever disable_plugin returned.
UnloadRegisteredDespiteDisable(m, name, on_disable, on_unload) ==
    LET events == subscribed_events(m, m.plugins[name])
        d == disable_plugin(m, name, on_disable)
        m1 == UnsubscribeAll(d.m, events, name)
        entry == m1.plugins[name]
        id == entry.plugin
        m2 == [Log(m1, Ev("remove", id, name))
                  EXCEPT !.plugins = Remove(@, name)]
        m3 == CallHook(m2, id, "on_unload", on_unload)
    IN IF ~on_unload
       THEN [m |-> DropEntry(m3, entry, "unload"), ret |-> "HookError"]
       ELSE LET has == Module(m3.inst[id].path).unload_plugin
                m4 == Log(m3, Ev("get unload_plugin", id,
                                 IF has THEN "Ok" ELSE "Err"))
                m5 == IF has
                      THEN Log(m4, Ev("unload_plugin()", id, ""))
                      ELSE m4
            IN [m |-> DropEntry(m5, entry, "unload"), ret |-> d.ret]

\* The body invoking on_unload on the registered entry, before the
\* unsubscriptions and the removal.
UnloadRegisteredHookFirst(m, name, on_disable, on_unload) ==
    LET events == subscribed_events(m, m.plugins[name])
        d == disable_plugin(m, name, on_disable)
    IN IF d.ret # "Ok" THEN d
       ELSE LET id == d.m.plugins[name].plugin
                m1 == CallHook(d.m, id, "on_unload", on_unload)
            IN IF ~on_unload THEN [m |-> m1, ret |-> "HookError"]
               ELSE LET m2 == UnsubscribeAll(m1, events, name)
                        entry == m2.plugins[name]
                        m3 == [Log(m2, Ev("remove", id, name))
                                  EXCEPT !.plugins = Remove(@, name)]
                        has == Module(m3.inst[id].path).unload_plugin
                        m4 == Log(m3, Ev("get unload_plugin", id,
                                         IF has THEN "Ok" ELSE "Err"))
                        m5 == IF has
                              THEN Log(m4, Ev("unload_plugin()", id, ""))
                              ELSE m4
                    IN [m |-> DropEntry(m5, entry, "unload"), ret |-> "Ok"]

\* The body of `if let Some(entry) = self.plugins.get(name)`.
UnloadRegistered(m, name, on_disable, on_unload) ==
    LET events == subscribed_events(m, m.plugins[name])
        d == disable_plugin(m, name, on_disable)
    IN IF d.ret # "Ok" THEN d
       ELSE LET m1 == UnsubscribeAll(d.m, events, name)
                entry == m1.plugins[name]
                id == entry.plugin
                m2 == [Log(m1, Ev("remove", id, name))
                          EXCEPT !.plugins = Remove(@, name)]
                m3 == CallHook(m2, id, "on_unload", on_unload)
            IN IF ~on_unload
               THEN [m |-> DropEntry(m3, entry, "unload"),
                     ret |-> "HookError"]
               ELSE LET has == Module(m3.inst[id].path).unload_plugin
                        m4 == Log(m3, Ev("get unload_plugin", id,
                                         IF has THEN "Ok" ELSE "Err"))
                        m5 == IF has
                              THEN Log(m4, Ev("unload_plugin()", id, ""))
                              ELSE m4
                    IN [m |-> DropEntry(m5, entry, "unload"),
                        ret |-> "Ok"]

\* unload_plugin handing an unregistered name to disable_plugin.
unload_plugin_no_guard(m, name, on_disable, on_unload) ==
    IF name \in DOMAIN m.plugins
    THEN UnloadRegistered(m, name, on_disable, on_unload)
    ELSE disable_plugin(m, name, on_disable)

unload_plugin(m, name, on_disable, on_unload) ==
    IF name \in DOMAIN m.plugins
    THEN UnloadRegistered(m, name, on_disable, on_unload)
    ELSE [m |-> m, ret |-> "Ok"]

\* ------------------------------------------------------------ load_all
\* mode & 0o111 != 0: one of the three execute bits is set.
ExecBits(mode) ==
    \/ (mode \div 1) % 2 = 1
    \/ (mode \div 8) % 2 = 1
    \/ (mode \div 64) % 2 = 1

\* is_valid_plugin_file without the extension test.
is_valid_plugin_file_any_ext(path) ==
    LET f == Module(path) IN
    IF ~f.exists \/ ~f.is_file THEN FALSE
    ELSE ExecBits(f.mode)

\* target_os = "linux", cfg(unix)
is_valid_plugin_file(path) ==
    LET f == Module(path) IN
    IF f.ext # "so" THEN FALSE
    ELSE IF ~f.exists \/ ~f.is_file THEN FALSE
    ELSE ExecBits(f.mode)

\* A directory entry the iterator could not read.
ReadErr == "<io error>"

\* The body of `for entry in dir_entries`: run[i] is the i-th entry read_dir
\* yields, with the outcomes the hooks of its plugin will have.
RECURSIVE LoadEntries(_, _, _)
LoadEntries(m, run, errors) ==
    IF run = <<>> THEN [m |-> m, errors |-> errors]
    ELSE LET it == Head(run) IN
         IF it.entry = ReadErr
         THEN LoadEntries(Log(m, Ev("read entry", 0, "Err")), Tail(run),
                          Append(errors, it.entry))
         ELSE IF ~is_valid_plugin_file(it.entry)
         THEN LoadEntries(Log(m, Ev("skip", 0, it.entry)), Tail(run), errors)
         ELSE LET r == load_plugin(Log(m, Ev("load_plugin", 0, it.entry)),
                                   it.entry, it.on_load, it.on_enable)
              IN LoadEntries(r.m, Tail(run),
                             IF r.ret # "Ok" THEN Append(errors, it.entry)
                             ELSE errors)

\* dir: what plugin_dir is when the call is made.
load_all_plugins(m, dir, run) ==
    IF dir = "missing" THEN [m |-> m, ret |-> "LoadError", errors |-> <<>>]
    ELSE IF dir = "unreadable"
    THEN [m |-> m, ret |-> "LoadError", errors |-> <<>>]
    ELSE LET r == LoadEntries(m, run, <<>>) IN
         [m |-> r.m,
          ret |-> IF r.errors # <<>> THEN "LoadError" ELSE "Ok",
          errors |-> r.errors]

\* ------------------------------------------------------------ unload_all
\* run[i]: the i-th key of the snapshot `names`, with the outcomes the hooks
\* of its plugin will have.
\* The loop leaving at the first unload that fails.
RECURSIVE UnloadNamesUntilError(_, _)
UnloadNamesUntilError(m, run) ==
    IF run = <<>> THEN m
    ELSE LET it == Head(run)
             r == unload_plugin(Log(m, Ev("unload_plugin", 0, it.name)),
                                it.name, it.on_disable, it.on_unload)
         IN IF r.ret # "Ok"
            THEN Log(r.m, Ev("eprintln", 0, it.name))
            ELSE UnloadNamesUntilError(r.m, Tail(run))

RECURSIVE UnloadNames(_, _)
UnloadNames(m, run) ==
    IF run = <<>> THEN m
    ELSE LET it == Head(run)
             r == unload_plugin(Log(m, Ev("unload_plugin", 0, it.name)),
                                it.name, it.on_disable, it.on_unload)
         IN UnloadNames(IF r.ret # "Ok"
                        THEN Log(r.m, Ev("eprintln", 0, it.name))
                        ELSE r.m,
                        Tail(run))

unload_all_plugins(m, run) == [m |-> UnloadNames(m, run), ret |-> "Ok"]

\* impl Drop for PluginManager: unload_all_plugins, then the fields of the
\* manager are dropped; rest lists the entries still in `plugins` in the order
\* the map drops them.
RECURSIVE DropEntries(_, _)
DropEntries(m, rest) ==
    IF rest = <<>> THEN m
    ELSE DropEntries(
            [DropEntry(m, m.plugins[Head(rest)], "manager_drop")
                EXCEPT !.plugins = Remove(@, Head(rest))],
            Tail(rest))

drop(m, run, rest) ==
    [DropEntries(unload_all_plugins(m, run).m, rest)
        EXCEPT !.subscribers = EventBus_new]

\* get_plugin: the instance registered under name, 0 for None.
get_plugin(m, name) ==
    IF name \in DOMAIN m.plugins THEN m.plugins[name].plugin ELSE 0

\* ------------------------------------------------------------ broadcast
\* Vec::sort_by_key on subscribed_events().len(): ascending and stable.
RECURSIVE sort_by_key(_, _)
sort_by_key(m, subs) ==
    IF subs = <<>> THEN <<>>
    ELSE LET key(n) == Len(subscribed_events(m, m.plugins[n]))
             least == CHOOSE k \in {key(n) : n \in Range(subs)} :
                          \A n \in Range(subs) : k <= key(n)
         IN SelectSeq(subs, LAMBDA n : key(n) = least)
            \o sort_by_key(m, SelectSeq(subs, LAMBDA n : key(n) # least))

\* handle_event of each recipient in turn; an Err is printed and the loop
\* goes on.
RECURSIVE Deliver(_, _, _)
Deliver(m, recipients, handle_event) ==
    IF recipients = <<>> THEN m
    ELSE LET name == Head(recipients)
             id == m.plugins[name].plugin
             m1 == Log(m, Ev("handle_event", id,
                             IF handle_event[name] THEN "Ok" ELSE "Err"))
         IN Deliver(IF handle_event[name] THEN m1
                    ELSE Log(m1, Ev("println", id, name)),
                    Tail(recipients), handle_event)

\* broadcast_event delivering to every registered subscriber, whatever its
\* state.
broadcast_event_any_state(m, event, order, handle_event) ==
    LET registered == SelectSeq(order, LAMBDA n : n \in DOMAIN m.plugins)
    IN [m |-> Deliver(m, sort_by_key(m, registered), handle_event),
        ret |-> "Ok"]

\* broadcast_event; order is the order in which the subscriber set of the
\* event is iterated, handle_event the outcome of each plugin's handler.
broadcast_event(m, event, order, handle_event) ==
    LET enabled == SelectSeq(order, LAMBDA n :
                       /\ n \in DOMAIN m.plugins
                       /\ m.plugins[n].state = "Enabled")
    IN [m |-> Deliver(m, sort_by_key(m, enabled), handle_event),
        ret |-> "Ok"]

\* ------------------------------------------------------------ inputs
\* The event names a caller broadcasts: the declared ones and one nobody
\* declares.
EventNames == {"e1", "e2", "e9"}

HookChoices(path) ==
    IF Module(path).opens /\ Module(path).create_plugin
    THEN {<<TRUE, TRUE>>, <<TRUE, FALSE>>, <<FALSE, TRUE>>}
    ELSE {<<TRUE, TRUE>>}

\* An entry of a directory listing with the outcomes of its plugin's hooks.
DirItems ==
    {[entry |-> ReadErr, on_load |-> TRUE, on_enable |-> TRUE]} \cup
    UNION {{[entry |-> f, on_load |-> c[1], on_enable |-> c[2]] :
               c \in HookChoices(f)} : f \in Files}

\* A directory lists every file once.
DirRuns ==
    UNION {{r \in [1..k -> DirItems] :
               \A i, j \in 1..k : i # j => r[i].entry # r[j].entry} :
           k \in 0..MaxDir}

\* The orders in which a map of these keys can be iterated.
Orders(keys) ==
    {o \in [1..Cardinality(keys) -> keys] :
        \A i, j \in 1..Cardinality(keys) : i # j => o[i] # o[j]}

UnloadChoices == {<<TRUE, TRUE>>, <<TRUE, FALSE>>, <<FALSE, TRUE>>}

UnloadRuns(keys) ==
    UNION {{[i \in 1..Len(o) |->
                [name |-> o[i], on_disable |-> c[i][1], on_unload |-> c[i][2]]] :
               c \in [1..Len(o) -> UnloadChoices]} : o \in Orders(keys)}

NoCall == [op |-> "none", name |-> "", path |-> "", run |-> <<>>,
           errors |-> <<>>, ret |-> ""]

\* ------------------------------------------------------------ state machine
\* PluginManager::new
Init ==
    /\ plugins = << >>
    /\ subscribers = EventBus_new
    /\ inst = << >>
    /\ last = NoCall
    /\ trace = <<>>
    /\ pre = << >>
    /\ dropped = FALSE

Self == [plugins |-> plugins, subscribers |-> subscribers, inst |-> inst,
         trace |-> <<>>]

\* The caller makes a call when the previous one has returned and its result
\* has been taken.
Idle == ~dropped /\ last = NoCall

Commit(m) ==
    /\ plugins' = m.plugins
    /\ subscribers' = m.subscribers
    /\ inst' = m.inst
    /\ trace' = m.trace
    /\ pre' = [plugins |-> plugins, subscribers |-> subscribers, inst |-> inst]

Call(op, name, path, run, errors, ret) ==
    last' = [op |-> op, name |-> name, path |-> path, run |-> run,
             errors |-> errors, ret |-> ret]

LoadPlugin ==
    /\ Idle
    /\ \E path \in Files : \E c \in HookChoices(path) :
          LET r == load_plugin(Self, path, c[1], c[2]) IN
          /\ Commit(r.m)
          /\ Call("load_plugin", "", path, <<>>, <<>>, r.ret)
    /\ UNCHANGED dropped

EnablePlugin ==
    /\ Idle
    /\ \E name \in Names : \E on_enable \in BOOLEAN :
          LET r == enable_plugin(Self, name, on_enable) IN
          /\ Commit(r.m)
          /\ Call("enable_plugin", name, "", <<>>, <<>>, r.ret)
    /\ UNCHANGED dropped

DisablePlugin ==
    /\ Idle
    /\ \E name \in Names : \E on_disable \in BOOLEAN :
          LET r == disable_plugin(Self, name, on_disable) IN
          /\ Commit(r.m)
          /\ Call("disable_plugin", name, "", <<>>, <<>>, r.ret)
    /\ UNCHANGED dropped

UnloadPlugin ==
    /\ Idle
    /\ \E name \in Names : \E c \in UnloadChoices :
          LET r == unload_plugin(Self, name, c[1], c[2]) IN
          /\ Commit(r.m)
          /\ Call("unload_plugin", name, "", <<>>, <<>>, r.ret)
    /\ UNCHANGED dropped

LoadAllPlugins ==
    /\ Idle
    /\ \E dir \in {"missing", "unreadable", "ok"} : \E run \in DirRuns :
          LET r == load_all_plugins(Self, dir, run) IN
          /\ dir # "ok" => run = <<>>
          /\ Commit(r.m)
          /\ Call("load_all_plugins", "", dir, run, r.errors, r.ret)
    /\ UNCHANGED dropped

UnloadAllPlugins ==
    /\ Idle
    /\ \E run \in UnloadRuns(DOMAIN plugins) :
          LET r == unload_all_plugins(Self, run) IN
          /\ Commit(r.m)
          /\ Call("unload_all_plugins", "", "", run, <<>>, r.ret)
    /\ UNCHANGED dropped

BroadcastEvent ==
    /\ Idle
    /\ \E event \in EventNames :
       \E order \in Orders(get_subscribers(subscribers, event)) :
       \E handle_event \in [Range(order) -> BOOLEAN] :
          LET r == broadcast_event(Self, event, order, handle_event) IN
          /\ Commit(r.m)
          /\ Call("broadcast_event", event, "", order, <<>>, r.ret)
    /\ UNCHANGED dropped

Drop ==
    /\ Idle
    /\ \E run \in UnloadRuns(DOMAIN plugins) :
          LET u == unload_all_plugins(Self, run).m IN
          \E rest \in Orders(DOMAIN u.plugins) :
             /\ Commit(drop(Self, run, rest))
             /\ Call("drop", "", "", run, <<>>, "Ok")
    /\ dropped' = TRUE

\* Between calls an instance is known by the name it is registered under:
\* its id becomes the rank of that name.
Slot(name) == CHOOSE i \in 1..Len(NameOrder) : NameOrder[i] = name

\* The caller takes the result; the instances the call destroyed are history.
Return ==
    /\ ~dropped
    /\ last # NoCall
    /\ last' = NoCall
    /\ trace' = <<>>
    /\ pre' = << >>
    /\ plugins' = [n \in DOMAIN plugins |->
                      [plugins[n] EXCEPT !.plugin = Slot(n), !.library = Slot(n)]]
    /\ inst' = [i \in {Slot(n) : n \in DOMAIN plugins} |->
                   inst[plugins[NameOrder[i]].plugin]]
    /\ UNCHANGED <<subscribers, dropped>>

Next ==
    \/ LoadPlugin
    \/ EnablePlugin
    \/ DisablePlugin
    \/ UnloadPlugin
    \/ LoadAllPlugins
    \/ UnloadAllPlugins
    \/ BroadcastEvent
    \/ Drop
    \/ Return

Spec == Init /\ [][Next]_vars

\* ------------------------------------------------------------ the EventBus alone
\* An EventBus driven directly, as its owner may drive it: any subscribe and
\* unsubscribe in any order, on any event and plugin name.
BusInit == Init

BusSubscribe ==
    \E event \in EventNames : \E plugin \in Names :
        /\ subscribers' = subscribe(subscribers, event, plugin)
        /\ pre' = [plugins |-> plugins, subscribers |-> subscribers, inst |-> inst]
        /\ Call("subscribe", plugin, event, <<>>, <<>>, "")
        /\ UNCHANGED <<plugins, inst, trace, dropped>>

BusUnsubscribe ==
    \E event \in EventNames : \E plugin \in Names :
        /\ subscribers' = unsubscribe(subscribers, event, plugin)
        /\ pre' = [plugins |-> plugins, subscribers |-> subscribers, inst |-> inst]
        /\ Call("unsubscribe", plugin, event, <<>>, <<>>, "")
        /\ UNCHANGED <<plugins, inst, trace, dropped>>

BusNext == BusSubscribe \/ BusUnsubscribe

BusSpec == BusInit /\ [][BusNext]_vars

\* ------------------------------------------------------------ reading a call
\* The state of the entry `name` had when the call was made.
PreState(name) ==
    IF name \in DOMAIN pre.plugins THEN pre.plugins[name].state ELSE "absent"

\* The lifecycle hooks the call invoked, in order.
HookEvents ==
    SelectSeq(trace, LAMBDA e :
        e[1] \in {"on_load", "on_enable", "on_disable", "on_unload"})

NoHookFailed == \A k \in 1..Len(HookEvents) : HookEvents[k][3] = "Ok"

UnloadOps == {"unload_plugin", "unload_all_plugins", "drop"}

\* ------------------------------------------------------------ C1
\* C1: whenever unload_plugin(name) returns Ok, name is not a key of the
\* registry and is not a member of any event's subscriber set.
C1_UnloadOkRemovesEverywhere ==
    (last.op = "unload_plugin" /\ last.ret = "Ok") =>
        /\ last.name \notin DOMAIN plugins
        /\ \A e \in DOMAIN subscribers : last.name \notin subscribers[e]

\* ------------------------------------------------------------ C2
\* C2: unload_plugin(name) on a registered plugin in any state (Loaded,
\* Enabled or Disabled), none of the hooks it invokes failing, removes the
\* entry from the registry.
C2_UnloadRemovesFromAnyState ==
    (/\ last.op = "unload_plugin"
     /\ PreState(last.name) \in {"Loaded", "Enabled", "Disabled"}
     /\ NoHookFailed) =>
        last.name \notin DOMAIN plugins

\* ------------------------------------------------------------ C3
\* C3: whenever load_plugin returns an error, the registry and every
\* subscriber set are the same as before the call.
C3_FailedLoadChangesNothing ==
    (last.op = "load_plugin" /\ last.ret # "Ok") =>
        /\ plugins = pre.plugins
        /\ subscribers = pre.subscribers

\* ------------------------------------------------------------ C4
\* C4: a registered plugin instance leaves the registry, is replaced or is
\* destroyed only in a call of unload_plugin, unload_all_plugins or Drop.
C4_OnlyUnloadRemovesInstance ==
    last.op # "none" =>
        \A n \in DOMAIN pre.plugins :
            LET id == pre.plugins[n].plugin IN
            (\/ n \notin DOMAIN plugins
             \/ plugins[n].plugin # id
             \/ ~inst[id].alive) => last.op \in UnloadOps

\* ------------------------------------------------------------ C5
\* C5: in every reachable state, a name is a member of an event's subscriber
\* set only if it is a key of the registry and the registered plugin declares
\* that event in subscribed_events.
C5_SubscribersAreRegisteredAndDeclared ==
    \A e \in DOMAIN subscribers : \A n \in subscribers[e] :
        /\ n \in DOMAIN plugins
        /\ e \in Range(subscribed_events(Self, plugins[n]))

\* ------------------------------------------------------------ C6
\* What enable_plugin / disable_plugin must have done, by the transition
\* table: from state `from` the hook `hook` runs and, if it returns Ok, the
\* state becomes `to`; in state `to` the call is a no-op returning Ok; in any
\* other case the call fails with `err`.
FollowsTable(from, hook, to, err) ==
    LET n == last.name
        st == PreState(n)
    IN /\ subscribers = pre.subscribers
       /\ CASE st = from ->
                 /\ Len(HookEvents) = 1
                 /\ HookEvents[1][1] = hook
                 /\ HookEvents[1][2] = pre.plugins[n].plugin
                 /\ IF HookEvents[1][3] = "Ok"
                    THEN /\ last.ret = "Ok"
                         /\ plugins = [pre.plugins EXCEPT ![n].state = to]
                    ELSE /\ last.ret # "Ok"
                         /\ plugins = pre.plugins
            [] st = to ->
                 /\ last.ret = "Ok"
                 /\ HookEvents = <<>>
                 /\ plugins = pre.plugins
            [] OTHER ->
                 /\ last.ret = err
                 /\ HookEvents = <<>>
                 /\ plugins = pre.plugins

\* C6: enable_plugin succeeds only from Loaded (on_enable Ok, state becomes
\* Enabled) or Enabled (no-op), disable_plugin only from Enabled (on_disable
\* Ok, state becomes Disabled) or Disabled (no-op); in every other case the
\* call returns an error and the state, the registry and the EventBus are
\* unchanged.
C6_TransitionTable ==
    /\ last.op = "enable_plugin" =>
          FollowsTable("Loaded", "on_enable", "Enabled", "EnableError")
    /\ last.op = "disable_plugin" =>
          FollowsTable("Enabled", "on_disable", "Disabled", "DisableError")

\* enable_plugin on a Disabled entry has returned EnableError.
C6_Witness ==
    /\ last.op = "enable_plugin"
    /\ PreState(last.name) = "Disabled"
    /\ last.ret = "EnableError"

\* ------------------------------------------------------------ C7
Occurrences(hook, hooks) == Cardinality({k \in 1..Len(hooks) : hooks[k] = hook})

\* C7: enable_plugin on an Enabled plugin and disable_plugin on a Disabled
\* plugin return Ok without invoking a hook or changing anything, however
\* often they are called, and on_enable succeeds at most once per instance.
C7_IdempotentInTargetState ==
    /\ (last.op = "enable_plugin" /\ PreState(last.name) = "Enabled") =>
          /\ last.ret = "Ok"
          /\ HookEvents = <<>>
          /\ plugins = pre.plugins /\ inst = pre.inst
    /\ (last.op = "disable_plugin" /\ PreState(last.name) = "Disabled") =>
          /\ last.ret = "Ok"
          /\ HookEvents = <<>>
          /\ plugins = pre.plugins /\ inst = pre.inst
    /\ \A i \in DOMAIN inst : Occurrences("on_enable", inst[i].hooks) <= 1

\* enable_plugin has been called on a plugin that load_plugin had already
\* enabled, and has returned Ok.
C7_Witness ==
    /\ last.op = "enable_plugin"
    /\ PreState(last.name) = "Enabled"
    /\ last.ret = "Ok"
    /\ inst[plugins[last.name].plugin].hooks = <<"on_load", "on_enable">>

\* ------------------------------------------------------------ C8
\* C8: for a name that is not a key of the registry, enable_plugin returns
\* EnableError, disable_plugin returns DisableError and unload_plugin returns
\* Ok; no hook is invoked and the registry and the EventBus are unchanged.
C8_AbsentName ==
    (/\ last.op \in {"enable_plugin", "disable_plugin", "unload_plugin"}
     /\ last.name \notin DOMAIN pre.plugins) =>
        /\ last.op = "enable_plugin" => last.ret = "EnableError"
        /\ last.op = "disable_plugin" => last.ret = "DisableError"
        /\ last.op = "unload_plugin" => last.ret = "Ok"
        /\ trace = <<>>
        /\ plugins = pre.plugins
        /\ subscribers = pre.subscribers
        /\ inst = pre.inst

\* unload_plugin of an unregistered name has returned while another plugin is
\* registered and subscribed.
C8_Witness ==
    /\ last.op = "unload_plugin"
    /\ last.name \notin DOMAIN pre.plugins
    /\ DOMAIN pre.plugins # {}
    /\ DOMAIN pre.subscribers # {}

\* ------------------------------------------------------------ C9
\* The plugin of the file `path`, created by the call that has just returned,
\* is registered under its name in state Enabled, on_load and then on_enable
\* have each been invoked once on it, and it is subscribed to every event it
\* declares.
RegisteredEnabled(path) ==
    LET n == Module(path).name IN
    /\ n \in DOMAIN plugins
    /\ LET id == plugins[n].plugin IN
       /\ id \notin DOMAIN pre.inst
       /\ inst[id].path = path
       /\ plugins[n].state = "Enabled"
       /\ inst[id].hooks = <<"on_load", "on_enable">>
       /\ SelectSeq(HookEvents, LAMBDA e : e[2] = id) =
             << Ev("on_load", id, "Ok"), Ev("on_enable", id, "Ok") >>
       /\ \A e \in Range(Module(path).subscribed_events) :
             n \in get_subscribers(subscribers, e)

\* The i-th entry of the listing load_all_plugins read was loaded without error.
LoadedOk(i) ==
    /\ last.run[i].entry # ReadErr
    /\ is_valid_plugin_file(last.run[i].entry)
    /\ last.run[i].entry \notin Range(last.errors)

\* A later entry of the listing put a plugin of the same name in the registry.
Overridden(i) ==
    \E j \in (i + 1)..Len(last.run) :
        LET f == last.run[j].entry IN
        /\ f # ReadErr
        /\ is_valid_plugin_file(f)
        /\ Module(f).opens /\ Module(f).create_plugin
        /\ last.run[j].on_load
        /\ Module(f).name = Module(last.run[i].entry).name

\* C9: after load_plugin returns Ok the plugin is registered under its name in
\* state Enabled, on_load then on_enable have each been invoked once on it,
\* and its name is in the subscriber set of every event it declares; the same
\* holds of every module load_all_plugins loaded, as long as no later module
\* of the listing took its name.
C9_LoadOkIsEnabledAndSubscribed ==
    /\ (last.op = "load_plugin" /\ last.ret = "Ok") =>
          RegisteredEnabled(last.path)
    /\ last.op = "load_all_plugins" =>
          \A i \in 1..Len(last.run) :
              (LoadedOk(i) /\ ~Overridden(i)) =>
                  RegisteredEnabled(last.run[i].entry)

\* load_plugin of a module declaring two events has returned Ok.
C9_Witness ==
    /\ last.op = "load_plugin"
    /\ last.ret = "Ok"
    /\ Len(Module(last.path).subscribed_events) = 2

\* ------------------------------------------------------------ C10
\* The load of this entry of a listing fails.
ItemFails(it) ==
    \/ it.entry = ReadErr
    \/ /\ is_valid_plugin_file(it.entry)
       /\ \/ ~Module(it.entry).opens
          \/ ~Module(it.entry).create_plugin
          \/ ~it.on_load
          \/ ~it.on_enable

\* The files load_all_plugins passed to load_plugin, in order.
Attempted ==
    LET calls == SelectSeq(trace, LAMBDA e : e[1] = "load_plugin" /\ e[2] = 0)
    IN [k \in 1..Len(calls) |-> calls[k][3]]

\* The accepted files of the listing, in order.
Accepted ==
    LET ok == SelectSeq(last.run, LAMBDA it :
                  it.entry # ReadErr /\ is_valid_plugin_file(it.entry))
    IN [k \in 1..Len(ok) |-> ok[k].entry]

\* C10: load_all_plugins attempts every accepted file whatever happened to
\* the earlier ones; it returns an error exactly when some per-file failure
\* occurred or the directory is missing or unreadable, and then nothing is
\* loaded; and the plugin of every file whose load succeeded is registered
\* when the call returns.
C10_LoadAllPartialSuccess ==
    last.op = "load_all_plugins" =>
        /\ last.path # "ok" =>
              /\ last.ret = "LoadError"
              /\ trace = <<>>
              /\ plugins = pre.plugins /\ subscribers = pre.subscribers
        /\ last.path = "ok" =>
              /\ Attempted = Accepted
              /\ last.ret # "Ok" <=>
                    \E i \in 1..Len(last.run) : ItemFails(last.run[i])
              /\ \A i \in 1..Len(last.run) :
                    LoadedOk(i) =>
                        \E n \in DOMAIN plugins :
                            LET id == plugins[n].plugin IN
                            /\ id \notin DOMAIN pre.inst
                            /\ inst[id].path = last.run[i].entry

\* ------------------------------------------------------------ C11
\* load_all_plugins has read a directory of two files: the loadable module
\* run[i], all of whose hooks succeed, and the file run[j] whose extension is
\* not the native-module one.
ValidAndWrongExt(i, j) ==
    /\ last.op = "load_all_plugins" /\ last.path = "ok"
    /\ Len(last.run) = 2 /\ {i, j} = {1, 2}
    /\ LET f == last.run[i].entry
           g == last.run[j].entry
       IN /\ f # ReadErr /\ g # ReadErr
          /\ Module(f).ext = "so" /\ Module(f).exists /\ Module(f).is_file
          /\ ExecBits(Module(f).mode)
          /\ Module(f).opens /\ Module(f).create_plugin
          /\ last.run[i].on_load /\ last.run[i].on_enable
          /\ Module(g).ext # "so"

\* get_plugin finds the plugin of the file `path`.
Retrievable(path) ==
    LET id == get_plugin(Self, Module(path).name) IN
    id # 0 /\ inst[id].path = path

\* C11 as stated: with one valid module and one file of a wrong extension in
\* the directory, load_all_plugins registers the valid module and returns an
\* aggregate error whose list of failures does not mention the valid module.
C11_WrongExtensionIsReported ==
    \A i, j \in 1..2 :
        ValidAndWrongExt(i, j) =>
            /\ Retrievable(last.run[i].entry)
            /\ last.ret = "LoadError"
            /\ last.run[i].entry \notin Range(last.errors)

\* C11 amended: with one valid module and one file of a wrong extension in
\* the directory, load_all_plugins registers the valid module (get_plugin
\* finds it) and returns Ok; the file of the wrong extension is skipped
\* without an attempt to load it and is not counted as a failure.
C11_WrongExtensionIsSkipped ==
    \A i, j \in 1..2 :
        ValidAndWrongExt(i, j) =>
            /\ Retrievable(last.run[i].entry)
            /\ last.ret = "Ok"
            /\ last.errors = <<>>
            /\ Attempted = << last.run[i].entry >>

\* load_all_plugins has returned from such a directory.
C11_Witness == \E i, j \in 1..2 : ValidAndWrongExt(i, j)

\* ------------------------------------------------------------ C12
\* The names unload_all_plugins passed to unload_plugin, in order.
UnloadCalls ==
    LET calls == SelectSeq(trace, LAMBDA e : e[1] = "unload_plugin" /\ e[2] = 0)
    IN [k \in 1..Len(calls) |-> calls[k][3]]

\* The names whose unload failed and was logged.
UnloadFailures ==
    {e[3] : e \in {x \in Range(trace) : x[1] = "eprintln"}}

\* C12: unload_all_plugins, and Drop through it, calls unload_plugin exactly
\* once for every name registered when it starts, goes on after an unload
\* that fails, and returns Ok whatever the outcomes were.
C12_UnloadAllCallsEveryNameOnce ==
    last.op \in {"unload_all_plugins", "drop"} =>
        /\ Range(UnloadCalls) = DOMAIN pre.plugins
        /\ Len(UnloadCalls) = Cardinality(DOMAIN pre.plugins)
        /\ last.ret = "Ok"

\* unload_all_plugins has returned Ok after the unload of the first of two
\* names failed.
C12_Witness ==
    /\ last.op = "unload_all_plugins"
    /\ Len(UnloadCalls) = 2
    /\ UnloadCalls[1] \in UnloadFailures
    /\ last.ret = "Ok"

\* ------------------------------------------------------------ C13
\* The instances whose handle_event the call invoked.
Recipients == {e[2] : e \in {x \in Range(trace) : x[1] = "handle_event"}}

\* The subscribers of the broadcast event that were Enabled when it was sent.
EnabledSubscribers ==
    {n \in get_subscribers(pre.subscribers, last.name) : PreState(n) = "Enabled"}

\* C13: a broadcast invokes handle_event only on subscribers of the event
\* whose entry is Enabled: never on a Loaded or Disabled entry, never for a
\* name that is in the subscriber set but not in the registry.
C13_BroadcastOnlyToEnabled ==
    last.op = "broadcast_event" =>
        Recipients \subseteq {pre.plugins[n].plugin : n \in EnabledSubscribers}

\* A broadcast has reached an Enabled subscriber while another subscriber of
\* the event was Loaded, Disabled or absent.
C13_Witness ==
    /\ last.op = "broadcast_event"
    /\ Recipients # {}
    /\ \E n \in get_subscribers(pre.subscribers, last.name) :
          PreState(n) # "Enabled"

\* ------------------------------------------------------------ C14
\* The kinds of step the call took.
Kinds == {e[1] : e \in Range(trace)}

\* The disable step of the unload_plugin just made failed: the entry was
\* Loaded, or its on_disable returned Err.
DisableStepFailed ==
    /\ last.op = "unload_plugin"
    /\ last.name \in DOMAIN pre.plugins
    /\ \/ PreState(last.name) = "Loaded"
       \/ Ev("on_disable", pre.plugins[last.name].plugin, "Err") \in Range(trace)

\* C14: when the disable step of unload_plugin fails, unload_plugin returns
\* that error and stops there: the entry stays registered in the state it
\* had, every subscriber set is as it was, on_unload and the teardown export
\* are not invoked and nothing is dropped.
C14_FailedDisableAbortsUnload ==
    DisableStepFailed =>
        /\ last.ret = (IF PreState(last.name) = "Loaded"
                       THEN "DisableError" ELSE "HookError")
        /\ plugins = pre.plugins
        /\ subscribers = pre.subscribers
        /\ Kinds \cap {"unsubscribe", "remove", "on_unload", "get unload_plugin",
                       "unload_plugin()", "drop_plugin", "drop_library"} = {}
        /\ inst[plugins[last.name].plugin].alive
        /\ inst[plugins[last.name].plugin].library

\* unload_plugin of an Enabled entry whose on_disable returned Err.
C14_Witness ==
    /\ DisableStepFailed
    /\ PreState(last.name) = "Enabled"
    /\ last.name \in get_subscribers(subscribers, "e1")

\* ------------------------------------------------------------ C15
\* The on_unload hook of the unload_plugin just made returned Err.
OnUnloadFailed ==
    /\ last.op = "unload_plugin"
    /\ last.name \in DOMAIN pre.plugins
    /\ Ev("on_unload", pre.plugins[last.name].plugin, "Err") \in Range(trace)

\* The events unload_plugin read from the plugin before anything else.
SnapshottedEvents ==
    Range(Module(pre.inst[pre.plugins[last.name].plugin].path).subscribed_events)

\* C15: when on_unload fails, unload_plugin returns the error, yet the entry
\* is out of the registry and the name out of the subscriber set of every
\* snapshotted event; unloading the name again changes nothing and returns Ok.
C15_FailedOnUnloadStillUnloads ==
    OnUnloadFailed =>
        /\ last.ret = "HookError"
        /\ last.name \notin DOMAIN plugins
        /\ \A e \in SnapshottedEvents :
              last.name \notin get_subscribers(subscribers, e)
        /\ \A c \in UnloadChoices :
              unload_plugin(Self, last.name, c[1], c[2]) = [m |-> Self, ret |-> "Ok"]

\* on_unload of a plugin subscribed to an event has failed.
C15_Witness ==
    /\ OnUnloadFailed
    /\ SnapshottedEvents # {}
    /\ last.ret # "Ok"

\* ------------------------------------------------------------ C16
\* The positions in the trace of the steps of one kind.
At(kind) == {k \in 1..Len(trace) : trace[k][1] = kind}

\* Every step of kind a comes before every step of kind b.
Before(a, b) == \A i \in At(a) : \A j \in At(b) : i < j

\* The unload_plugin just made got past its disable step.
PastDisable ==
    /\ last.op = "unload_plugin"
    /\ last.name \in DOMAIN pre.plugins
    /\ ~DisableStepFailed

\* C16: an unload_plugin that gets past the disable step unsubscribes from
\* every snapshotted event, then removes the entry, then invokes on_unload,
\* then attempts the teardown export, and only then releases the module
\* handle, after the plugin instance has been destroyed.
C16_UnloadOrder ==
    PastDisable =>
        /\ {trace[k][3] : k \in At("unsubscribe")} = SnapshottedEvents
        /\ \A kind \in {"remove", "on_unload", "get unload_plugin",
                        "drop_plugin", "drop_library"} :
              Cardinality(At(kind)) = 1
        /\ Before("unsubscribe", "remove")
        /\ Before("remove", "on_unload")
        /\ Before("on_unload", "get unload_plugin")
        /\ Before("get unload_plugin", "unload_plugin()")
        /\ Before("get unload_plugin", "drop_library")
        /\ Before("unload_plugin()", "drop_library")
        /\ Before("drop_plugin", "drop_library")

\* ------------------------------------------------------------ C17
\* C17: the state of a registered entry is Loaded, Enabled or Disabled;
\* Error and Unloaded are never stored, whatever hook failed.
C17_RegisteredStates ==
    \A n \in DOMAIN plugins :
        plugins[n].state \in {"Loaded", "Enabled", "Disabled"}

\* A call in which a hook of a registered plugin failed has left entries in
\* the registry.
C17_Witness ==
    /\ \E e \in Range(trace) :
          /\ e[1] \in {"on_enable", "on_disable"}
          /\ e[3] = "Err"
          /\ \E n \in DOMAIN plugins : plugins[n].plugin = e[2]
    /\ \E n \in DOMAIN plugins : plugins[n].state = "Loaded"
    /\ \E n \in DOMAIN plugins : plugins[n].state = "Enabled"

\* ------------------------------------------------------------ C18
\* The bus differs from what it was before the call at most in whether
\* plugin is a subscriber of event.
OnlyTouches(event, plugin) ==
    /\ \A e \in EventNames \ {event} :
          get_subscribers(subscribers, e) = get_subscribers(pre.subscribers, e)
    /\ get_subscribers(subscribers, event) \ {plugin}
          = get_subscribers(pre.subscribers, event) \ {plugin}

\* C18 (EventBus alone): after subscribe(e, p), p is a subscriber of e, a
\* second subscribe changes nothing and an unsubscribe(e, p) takes p out
\* again; after unsubscribe(e, p), p is not a subscriber of e and a second
\* unsubscribe changes nothing; unsubscribe of a non-member or of an unknown
\* event changes nothing at all; neither call touches another event's set or
\* another plugin's membership.
C18_BusSetOperations ==
    /\ last.op = "subscribe" =>
          /\ last.name \in get_subscribers(subscribers, last.path)
          /\ subscribe(subscribers, last.path, last.name) = subscribers
          /\ last.name \notin get_subscribers(
                 unsubscribe(subscribers, last.path, last.name), last.path)
          /\ OnlyTouches(last.path, last.name)
    /\ last.op = "unsubscribe" =>
          /\ last.name \notin get_subscribers(subscribers, last.path)
          /\ unsubscribe(subscribers, last.path, last.name) = subscribers
          /\ OnlyTouches(last.path, last.name)
          /\ last.name \notin get_subscribers(pre.subscribers, last.path)
                => subscribers = pre.subscribers

\* unsubscribe has taken a plugin out of a set that another plugin is in,
\* while another event has subscribers too.
C18_Witness ==
    /\ last.op = "unsubscribe"
    /\ last.name \in get_subscribers(pre.subscribers, last.path)
    /\ get_subscribers(subscribers, last.path) # {}
    /\ \E e \in EventNames \ {last.path} : get_subscribers(subscribers, e) # {}

\* ------------------------------------------------------------ C19
HookOrder == <<"on_load", "on_enable", "on_disable", "on_unload">>

\* The hooks of instance id that had returned Ok when step k of the call
\* began: those before the call, then those of steps 1..k-1.
SucceededBefore(id, k) ==
    LET earlier == SelectSeq(SubSeq(trace, 1, k - 1), LAMBDA e :
                       /\ e[1] \in Range(HookOrder)
                       /\ e[2] = id
                       /\ e[3] = "Ok")
    IN (IF id \in DOMAIN pre.inst THEN pre.inst[id].hooks ELSE <<>>)
       \o [j \in 1..Len(earlier) |-> earlier[j][1]]

\* C19: the hooks of an instance that succeeded are an initial part of
\* on_load, on_enable, on_disable, on_unload, each at most once; a hook is
\* invoked only when exactly the hooks before it in that order have
\* succeeded; on_unload is invoked at most once; an instance that is
\* Disabled stays Disabled as long as it is registered.
C19_HookOrder ==
    /\ \A i \in DOMAIN inst :
          inst[i].hooks = SubSeq(HookOrder, 1, Len(inst[i].hooks))
    /\ last.op # "none" =>
          /\ \A k \in 1..Len(trace) : \A h \in 1..Len(HookOrder) :
                trace[k][1] = HookOrder[h] =>
                    SucceededBefore(trace[k][2], k) = SubSeq(HookOrder, 1, h - 1)
          /\ \A i \in DOMAIN inst :
                Cardinality({k \in At("on_unload") : trace[k][2] = i}) <= 1
          /\ \A n \in DOMAIN pre.plugins : \A n2 \in DOMAIN plugins :
                (/\ pre.plugins[n].state = "Disabled"
                 /\ plugins[n2].plugin = pre.plugins[n].plugin)
                    => plugins[n2].state = "Disabled"

\* An instance that was Disabled has been unloaded and has gone through all
\* four hooks, in a call that also ran the on_disable of another instance.
C19_Witness ==
    /\ last.op = "unload_all_plugins"
    /\ \E n \in DOMAIN pre.plugins :
          /\ pre.plugins[n].state = "Disabled"
          /\ inst[pre.plugins[n].plugin].hooks = HookOrder
    /\ At("on_disable") # {}

\* ------------------------------------------------------------ C20
\* The (event, name) pairs of the bus.
Subscriptions(subs) ==
    {<<e, n>> : e \in DOMAIN subs, n \in Names} \cap
    UNION {{<<e, n>> : n \in subs[e]} : e \in DOMAIN subs}

\* C20: every registered plugin, in whatever state, is a subscriber of every
\* event it declares. As long as the manager exists, a subscription appears
\* only in a load_plugin (alone or inside load_all_plugins) and disappears
\* only in an unload_plugin (alone or inside unload_all_plugins) of that
\* name which also removes its entry: enable_plugin, disable_plugin, a
\* broadcast and an unload that aborts leave the bus as it was.
C20_RegisteredAreSubscribed ==
    /\ \A n \in DOMAIN plugins :
          \A e \in Range(subscribed_events(Self, plugins[n])) :
              n \in get_subscribers(subscribers, e)
    /\ last.op \notin {"none", "drop"} =>
          /\ Subscriptions(subscribers) \ Subscriptions(pre.subscribers) # {}
                => last.op \in {"load_plugin", "load_all_plugins"}
          /\ \A s \in Subscriptions(pre.subscribers) \ Subscriptions(subscribers) :
                /\ last.op \in {"unload_plugin", "unload_all_plugins"}
                /\ last.op = "unload_plugin" => s[2] = last.name
                /\ s[2] \in DOMAIN pre.plugins
                /\ s[2] \notin DOMAIN plugins

\* disable_plugin has disabled a plugin that declares two events.
C20_Witness ==
    /\ last.op = "disable_plugin"
    /\ last.ret = "Ok"
    /\ last.name \in DOMAIN plugins
    /\ plugins[last.name].state = "Disabled"
    /\ Len(subscribed_events(Self, plugins[last.name])) = 2

====
